---- MODULE Spec2Model ----
(***************************************************************************)
(* FedMob mobile client: the reconnecting WebSocket transport              *)
(* (MobileClient/src/federated/WebSocketClient.js), the FlowerClient       *)
(* session layer driving it (unnamed/part_014, with the registration step  *)
(* of MobileClient/src/federated/FlowerClient.js) and the TrainingEngine   *)
(* round loop; further down the weight codec (ParameterSerialization), the *)
(* ModelManager with the cleanup calls, and the TrainingEngine epoch and   *)
(* batch loops, each with a specification of its own; then the queue flush *)
(* of the transport under repeated connect() calls (SpecFlush, with the    *)
(* fairness of the loop's continuation) and the onTrainingStart and        *)
(* onEvaluateRequest handlers of part_014 (SpecRound).                     *)
(*                                                                         *)
(* JavaScript runs one macrotask (socket event, timer, user call) at a     *)
(* time; every action below is one macrotask, or the part of an async      *)
(* function between two awaits that wait on a timer or on I/O.             *)
(***************************************************************************)
EXTENDS Integers, Sequences, FiniteSets, TLC

\* ------------------------------------------------------------ bounds
MaxSockets == 6         \* WebSocket objects created by connect(), transport alone
MaxSessionSockets == 2  \* the same, when the session layer runs on top
MaxConnectCalls == 1    \* FlowerClient.connect() calls made by the application
MaxSends == 2           \* FlowerClient.startTraining() calls made by the application
MaxSendFailures == 1    \* times ws.send() throws on an OPEN socket
MaxInbound == 2         \* messages the bridge delivers
MaxRound == 2           \* round numbers the bridge uses
MaxEpochs == 1          \* config.epochs the bridge asks for
MaxDim == 2             \* size of every dimension of a weight tensor
MaxLayers == 2          \* layers of a weight set
MaxSamples == 4         \* samples of X_train
MaxBatchSize == 3       \* config.batchSize
MaxEngineEpochs == 2    \* config.epochs of a trainModel call
MaxReconnectCalls == 1  \* FlowerClient.connect() calls after the first one
MaxFlushSockets == 3    \* WebSocket objects created when the application reconnects
MaxRounds == 2          \* onTrainingStart invocations of the round handler
MaxRoundEpochs == 2     \* config.epochs of a start_training message
MaxEvaluations == 1     \* onEvaluateRequest invocations of the round handler

\* ------------------------------------------------- program constants
maxReconnectAttempts == 5
BaseDelay == 1000
CapDelay == 30000

VARIABLES
  socks,              \* readyState of every WebSocket created; this.ws is the last
  isConnected,        \* WebSocketClient.isConnected
  messageQueue,       \* WebSocketClient.messageQueue
  reconnectAttempts,  \* WebSocketClient.reconnectAttempts
  timers,             \* pending setTimeout(() => this.connect()) callbacks
  flushing,           \* processMessageQueue is running its loop
  connectPromise,     \* the promise FlowerClient.connect awaits
  connectCalls,       \* FlowerClient.connect() calls so far
  nextId,             \* number of send() calls so far + 1
  appSends,           \* FlowerClient.startTraining() calls so far
  wire,               \* what ws.send() put on the network, in order
  sendFailures,       \* times ws.send() threw on an OPEN socket so far
  lastDelay,          \* delay of the reconnect timer scheduled last (0: none yet)
  lastK,              \* attempts already made when it was scheduled (-1: none yet)
  exhausted,          \* attemptReconnect gave up ("Max reconnection attempts reached")
  errors,             \* what FlowerClient.onError was called with
  tasks,              \* handler invocations that have not returned, oldest first
  inbound,            \* messages delivered by ws.onmessage so far
  currentRound,       \* FlowerClient.currentRound
  isTraining,         \* TrainingEngine.isTraining
  abandoned,          \* handler invocations that were training when disconnect() ran
  completedRounds,    \* handler invocations whose completeTraining call was made
  memChecks,          \* resourceMonitor.checkMemoryStatus() calls: who made them, and when
  codecPc,            \* ParameterSerialization: which call was made last
  weights,            \* the weight arrays handed to serializeWeights
  parameters,         \* the parameter list serializeWeights returned
  restored,           \* what deserializeParameters returned
  valid,              \* what validateParameters returned
  managerPc,          \* ModelManager: which call was made last
  model,              \* the weight variables of ModelManager.model
  candidate,          \* the weights handed to validateWeights / setModelWeights
  validation,         \* what validateWeights returned
  enginePc,           \* TrainingEngine.trainModel: where the call stands
  cfg,                \* its config and the number of samples of X_train
  currentEpoch,       \* TrainingEngine.currentEpoch
  currentBatch,       \* the loop variable of trainEpoch
  totalLoss,          \* trainEpoch: totalLoss
  totalAccuracy,      \* trainEpoch: totalAccuracy
  processedSamples,   \* trainEpoch: processedSamples
  batchLog,           \* the batches trainBatch was called with in this epoch
  history,            \* trainModel: history.loss and history.accuracy
  lastEpoch,          \* what trainEpoch returned last, with the batches it trained
  hookCalls,          \* the arguments of every onEpochEnd call
  handlerPc,          \* where the running onTrainingStart invocation stands
  lastRound,          \* what the latest onTrainingStart invocation did so far
  lastEvaluation,     \* what the latest onEvaluateRequest invocation did
  clientModel,        \* FlowerClient.model and its optimizer's learning rate
  X_train             \* FlowerClient.datasetLoader and its X_train / y_train tensors

vars == <<socks, isConnected, messageQueue, reconnectAttempts, timers, flushing,
          connectPromise, connectCalls, nextId, appSends, wire, sendFailures, lastDelay, lastK,
          exhausted, errors, tasks, inbound, currentRound, isTraining, abandoned,
          completedRounds, memChecks,
          codecPc, weights, parameters, restored, valid,
          managerPc, model, candidate, validation,
          enginePc, cfg, currentEpoch, currentBatch, totalLoss, totalAccuracy,
          processedSamples, batchLog, history, lastEpoch, hookCalls,
          handlerPc, lastRound, lastEvaluation, clientModel, X_train>>

transportVars == <<socks, isConnected, messageQueue, reconnectAttempts, timers,
                   flushing, connectPromise, connectCalls, nextId, appSends, wire,
                   sendFailures, lastDelay, lastK, exhausted, errors>>

roundVars == <<completedRounds, memChecks>>

codecVars == <<codecPc, weights, parameters, restored, valid>>

managerVars == <<managerPc, model, candidate, validation>>

engineVars == <<enginePc, cfg, currentEpoch, currentBatch, totalLoss, totalAccuracy,
                processedSamples, batchLog, history, lastEpoch, hookCalls>>

handlerVars == <<handlerPc, lastRound, lastEvaluation, clientModel, X_train>>

clientVars == <<transportVars, tasks, inbound, currentRound, abandoned, roundVars>>

sessionVars == <<clientVars, isTraining>>

\* ------------------------------------------------------------ helpers
RECURSIVE Pow2(_)
Pow2(n) == IF n <= 0 THEN 1 ELSE 2 * Pow2(n - 1)

Min(a, b) == IF a < b THEN a ELSE b

\* this.ws: the WebSocket created last (0: null)
ws == Len(socks)

wsState == IF ws = 0 THEN "null" ELSE socks[ws]

\* { type, payload } with the send() call that built it
Message(type, task, n) ==
  [id |-> nextId + n, type |-> type, task |-> task, offline |-> ~isConnected]

\* ws.send(JSON.stringify(message)): a socket still CONNECTING throws, an OPEN
\* one transmits or throws, a CLOSING or CLOSED one discards the data silently
WsSendOutcomes(state, failures) ==
  CASE state = "open" -> IF failures < MaxSendFailures THEN {"sent", "throw"} ELSE {"sent"}
    [] state = "connecting" -> {"throw"}
    [] OTHER -> {"dropped"}

\* the transport as send() reads and writes it
Channel == [q |-> messageQueue, w |-> wire, f |-> sendFailures]

\* WebSocketClient.send: the queue and the wire after send(msg) on channel c
send(msg, outcome, c) ==
  IF ~isConnected
  THEN [c EXCEPT !.q = Append(c.q, msg)]
  ELSE CASE outcome = "sent" ->
              [c EXCEPT !.w = Append(c.w, [id |-> msg.id, type |-> msg.type,
                                           task |-> msg.task, offline |-> msg.offline,
                                           sock |-> ws])]
         [] outcome = "throw" ->
              [c EXCEPT !.q = Append(c.q, msg),
                        !.f = IF wsState = "open" THEN c.f + 1 ELSE c.f]
         [] OTHER -> c

RemoveAt(seq, i) == SubSeq(seq, 1, i - 1) \o SubSeq(seq, i + 1, Len(seq))

\* the message type each convenience method of the transport hands to send()
WireType(method) ==
  CASE method = "startTraining" -> "start_training"
    [] method = "updateTrainingProgress" -> "training_update"
    [] method = "sendWeights" -> "weights"
    [] method = "completeTraining" -> "training_complete"
    [] method = "completeEvaluation" -> "evaluate_complete"

\* the callback the transport invokes for an inbound message type
HandlerFor(type) ==
  CASE type = "start_training" -> "onTrainingStart"
    [] type = "evaluate_request" -> "onEvaluateRequest"

\* Math.min(1000 * Math.pow(2, this.reconnectAttempts), 30000)
ReconnectDelayUncapped(attempts) == BaseDelay * Pow2(attempts)

ReconnectDelay(attempts) == Min(BaseDelay * Pow2(attempts), CapDelay)

\* the value ws.onopen assigns to reconnectAttempts
OnOpenAttemptsKept == reconnectAttempts

OnOpenAttempts == 0

\* WebSocketClient.attemptReconnect
attemptReconnect ==
  IF reconnectAttempts >= maxReconnectAttempts
  THEN /\ exhausted' = TRUE
       /\ UNCHANGED <<reconnectAttempts, timers, lastDelay, lastK>>
  ELSE /\ reconnectAttempts' = reconnectAttempts + 1
       /\ timers' = timers + 1
       /\ lastDelay' = ReconnectDelay(reconnectAttempts + 1)
       /\ lastK' = reconnectAttempts
       /\ UNCHANGED exhausted

\* ------------------------------------------------------------ initial state
\* new WebSocketClient(), new FlowerClient(): nothing connected, no round yet
SessionInit ==
  /\ socks = << >>
  /\ isConnected = FALSE
  /\ messageQueue = << >>
  /\ reconnectAttempts = 0
  /\ timers = 0
  /\ flushing = FALSE
  /\ connectPromise = "none"
  /\ connectCalls = 0
  /\ nextId = 1
  /\ appSends = 0
  /\ wire = << >>
  /\ sendFailures = 0
  /\ lastDelay = 0
  /\ lastK = -1
  /\ exhausted = FALSE
  /\ errors = {}
  /\ tasks = << >>
  /\ inbound = 0
  /\ currentRound = 0
  /\ isTraining = FALSE
  /\ abandoned = {}
  /\ completedRounds = {}
  /\ memChecks = {}
  /\ handlerPc = "idle"
  /\ lastRound = [round |-> 0, epochs |-> [t |-> "number", v |-> 0, items |-> << >>],
                  learningRate |-> 0, found |-> "none", reloads |-> 0, raceTimeout |-> 0,
                  reload |-> "none", trainCalls |-> 0, epochFailed |-> FALSE,
                  trainThrew |-> FALSE, epochsRun |-> 0, usedRate |-> 0, after |-> "none",
                  result |-> [loss |-> [t |-> "undefined", v |-> 0, items |-> << >>],
                              accuracy |-> [t |-> "undefined", v |-> 0, items |-> << >>]],
                  retries |-> 0, completeCalls |-> 0, sendFailures |-> 0, sent |-> << >>,
                  onError |-> 0, onRoundComplete |-> 0, done |-> FALSE]
  /\ lastEvaluation = [request |-> 0, failed |-> FALSE, sent |-> << >>, onError |-> 0]
  /\ clientModel = [created |-> FALSE, learningRate |-> 0]
  /\ X_train = "unset"

\* new ParameterSerialization(): no call made yet
CodecIdle ==
  /\ codecPc = "idle"
  /\ weights = << >>
  /\ parameters = << >>
  /\ restored = << >>
  /\ valid = FALSE

\* new ModelManager(): this.model = null
ManagerIdle ==
  /\ managerPc = "idle"
  /\ model = << >>
  /\ candidate = << >>
  /\ validation = "none"

\* new TrainingEngine(): isTraining false, no history
EngineIdle ==
  /\ enginePc = "idle"
  /\ cfg = [epochs |-> 0, batchSize |-> 0, numSamples |-> 0]
  /\ currentEpoch = 0
  /\ currentBatch = 0
  /\ totalLoss = 0
  /\ totalAccuracy = 0
  /\ processedSamples = 0
  /\ batchLog = << >>
  /\ history = << >>
  /\ lastEpoch = [loss |-> [num |-> 0, den |-> 1], accuracy |-> [num |-> 0, den |-> 1]]
  /\ hookCalls = << >>

Init == SessionInit /\ CodecIdle /\ ManagerIdle /\ EngineIdle

\* ------------------------------------------------------------ transport
\* FlowerClient.connect up to its await of wsClient.connect(): new WebSocket(url)
\* either throws (connect() returns false, FlowerClient reports the error) or
\* the socket starts CONNECTING and the polling promise is pending
FlowerClientConnect(limit) ==
  /\ UNCHANGED <<roundVars, codecVars, managerVars, engineVars, handlerVars>>
  /\ ~flushing
  /\ connectPromise # "pending"
  /\ connectCalls < MaxConnectCalls
  /\ Len(socks) < limit
  /\ connectCalls' = connectCalls + 1
  /\ \E ctorThrows \in BOOLEAN :
       IF ctorThrows
       THEN /\ connectPromise' = "false"
            /\ errors' = errors \cup {"connect"}
            /\ UNCHANGED socks
       ELSE /\ connectPromise' = "pending"
            /\ socks' = Append(socks, "connecting")
            /\ UNCHANGED errors
  /\ UNCHANGED <<isConnected, messageQueue, reconnectAttempts, timers, flushing,
                 nextId, appSends, wire, sendFailures, lastDelay, lastK, exhausted,
                 tasks, inbound, currentRound, isTraining, abandoned>>

\* FlowerClient.sendJoin: the channel after send('join', ...)
sendJoin(outcome) == send(Message("join", 0, 0), outcome, Channel)

\* the setInterval callback of connect() sees isConnected and resolves true;
\* FlowerClient.connect resumes and registers (sendJoin)
PollConnection ==
  /\ UNCHANGED <<roundVars, codecVars, managerVars, engineVars, handlerVars>>
  /\ ~flushing
  /\ connectPromise = "pending"
  /\ isConnected
  /\ connectPromise' = "true"
  /\ \E outcome \in WsSendOutcomes(wsState, sendFailures) :
       LET r == sendJoin(outcome)
       IN  /\ messageQueue' = r.q
           /\ wire' = r.w
           /\ sendFailures' = r.f
  /\ nextId' = nextId + 1
  /\ UNCHANGED <<socks, isConnected, reconnectAttempts, timers, flushing,
                 connectCalls, appSends, lastDelay, lastK, exhausted, errors,
                 tasks, inbound, currentRound, isTraining, abandoned>>

\* ws.onopen
OnOpen(s) ==
  /\ UNCHANGED <<roundVars, codecVars, managerVars, engineVars, handlerVars>>
  /\ ~flushing
  /\ socks[s] = "connecting"
  /\ socks' = [socks EXCEPT ![s] = "open"]
  /\ isConnected' = TRUE
  /\ reconnectAttempts' = OnOpenAttempts
  /\ flushing' = TRUE
  /\ UNCHANGED <<messageQueue, timers, connectPromise, connectCalls, nextId,
                 appSends, wire, sendFailures, lastDelay, lastK, exhausted, errors,
                 tasks, inbound, currentRound, isTraining, abandoned>>

\* one turn of the while loop of processMessageQueue
FlushStep ==
  /\ UNCHANGED <<roundVars, codecVars, managerVars, engineVars, handlerVars>>
  /\ flushing
  /\ IF Len(messageQueue) > 0 /\ isConnected
     THEN \E outcome \in WsSendOutcomes(wsState, sendFailures) :
            LET r == send(Head(messageQueue), outcome,
                          [Channel EXCEPT !.q = Tail(messageQueue)])
            IN  /\ messageQueue' = r.q
                /\ wire' = r.w
                /\ sendFailures' = r.f
                /\ UNCHANGED flushing
     ELSE /\ flushing' = FALSE
          /\ UNCHANGED <<messageQueue, wire, sendFailures>>
  /\ UNCHANGED <<socks, isConnected, reconnectAttempts, timers, connectPromise,
                 connectCalls, nextId, appSends, lastDelay, lastK, exhausted, errors,
                 tasks, inbound, currentRound, isTraining, abandoned>>

\* ws.onerror
OnError(s) ==
  /\ UNCHANGED <<roundVars, codecVars, managerVars, engineVars, handlerVars>>
  /\ ~flushing
  /\ socks[s] \in {"connecting", "open"}
  /\ socks' = [socks EXCEPT ![s] = "failed"]
  /\ isConnected' = FALSE
  /\ UNCHANGED <<messageQueue, reconnectAttempts, timers, flushing, connectPromise,
                 connectCalls, nextId, appSends, wire, sendFailures, lastDelay, lastK, exhausted,
                 errors,
                 tasks, inbound, currentRound, isTraining, abandoned>>

\* ws.onclose
OnClose(s) ==
  /\ UNCHANGED <<roundVars, codecVars, managerVars, engineVars, handlerVars>>
  /\ ~flushing
  /\ socks[s] \in {"open", "closing", "failed"}
  /\ socks' = [socks EXCEPT ![s] = "closed"]
  /\ isConnected' = FALSE
  /\ attemptReconnect
  /\ UNCHANGED <<messageQueue, flushing, connectPromise, connectCalls, nextId,
                 appSends, wire, sendFailures, errors,
                 tasks, inbound, currentRound, isTraining, abandoned>>

\* the reconnect timer fires: this.connect()
TimerFire(limit) ==
  /\ UNCHANGED <<roundVars, codecVars, managerVars, engineVars, handlerVars>>
  /\ ~flushing
  /\ timers > 0
  /\ Len(socks) < limit
  /\ timers' = timers - 1
  /\ \E ctorThrows \in BOOLEAN :
       socks' = IF ctorThrows THEN socks ELSE Append(socks, "connecting")
  /\ UNCHANGED <<isConnected, messageQueue, reconnectAttempts, flushing,
                 connectPromise, connectCalls, nextId, appSends, wire, sendFailures, lastDelay,
                 lastK, exhausted, errors,
                 tasks, inbound, currentRound, isTraining, abandoned>>

\* FlowerClient.disconnect -> WebSocketClient.disconnect
Disconnect ==
  /\ UNCHANGED <<roundVars, codecVars, managerVars, engineVars, handlerVars>>
  /\ ~flushing
  /\ ws > 0
  /\ socks' = IF wsState \in {"connecting", "open"}
              THEN [socks EXCEPT ![ws] = "closing"]
              ELSE socks
  /\ isConnected' = FALSE
  /\ abandoned' = abandoned \cup {tasks[i].tid : i \in {j \in DOMAIN tasks : tasks[j].pc = "training"}}
  /\ UNCHANGED <<messageQueue, reconnectAttempts, timers, flushing, connectPromise,
                 connectCalls, nextId, appSends, wire, sendFailures, lastDelay, lastK, exhausted,
                 errors,
                 tasks, inbound, currentRound, isTraining>>

\* FlowerClient.startTraining(round): asks the bridge for a round
StartTraining ==
  /\ UNCHANGED <<codecVars, managerVars, engineVars, handlerVars>>
  /\ ~flushing
  /\ appSends < MaxSends
  /\ appSends' = appSends + 1
  /\ memChecks' = memChecks \cup {[tid |-> 0, point |-> "before_request"]}
  /\ UNCHANGED completedRounds
  /\ \E outcome \in WsSendOutcomes(wsState, sendFailures) :
       LET r == send(Message(WireType("startTraining"), 0, 0), outcome, Channel)
       IN  /\ messageQueue' = r.q
           /\ wire' = r.w
           /\ sendFailures' = r.f
  /\ nextId' = nextId + 1
  /\ UNCHANGED <<socks, isConnected, reconnectAttempts, timers, flushing,
                 connectPromise, connectCalls, lastDelay, lastK, exhausted, errors,
                 tasks, inbound, currentRound, isTraining, abandoned>>

\* ------------------------------------------------------------ session
\* wsClient.onTrainingStart up to its first await (tensorFlowManager.initialize())
onTrainingStartBegin(tid, round, epochs) ==
  /\ currentRound' = round
  /\ tasks' = Append(tasks, [tid |-> tid, kind |-> "onTrainingStart", round |-> round,
                             epochs |-> epochs, epoch |-> 0, pc |-> "init"])

\* wsClient.onEvaluateRequest up to its first await (ensureModelAndDataReady())
onEvaluateRequestBegin(tid) ==
  /\ tasks' = Append(tasks, [tid |-> tid, kind |-> "onEvaluateRequest", round |-> 0,
                             epochs |-> 0, epoch |-> 0, pc |-> "init"])
  /\ UNCHANGED currentRound

\* WebSocketClient.handleMessage: the handler is called and not awaited
handleMessage(type, tid) ==
  IF HandlerFor(type) = "onTrainingStart"
  THEN \E round \in 1..MaxRound, epochs \in 1..MaxEpochs :
         onTrainingStartBegin(tid, round, epochs)
  ELSE onEvaluateRequestBegin(tid)

\* ws.onmessage
OnMessage(s) ==
  /\ UNCHANGED <<roundVars, codecVars, managerVars, engineVars, handlerVars>>
  /\ ~flushing
  /\ socks[s] = "open"
  /\ inbound < MaxInbound
  /\ inbound' = inbound + 1
  /\ \E type \in {"start_training", "evaluate_request"} : handleMessage(type, inbound + 1)
  /\ UNCHANGED <<transportVars, isTraining, abandoned>>

\* onTrainingStart from model/data preparation to the first await inside
\* TrainingEngine.trainModel (the first trainBatch)
TrainingBegin(i) ==
  /\ UNCHANGED <<roundVars, codecVars, managerVars, engineVars, handlerVars>>
  /\ ~flushing
  /\ tasks[i].kind = "onTrainingStart" /\ tasks[i].pc = "init"
  /\ isTraining' = TRUE
  /\ tasks' = [tasks EXCEPT ![i].pc = "training"]
  /\ UNCHANGED <<transportVars, inbound, currentRound, abandoned>>

\* one epoch of trainModel ends: it throws, or onEpochEnd reports progress and
\* weights and the loop goes on or trainModel returns
TrainingEpoch(i) ==
  /\ UNCHANGED <<codecVars, managerVars, engineVars, handlerVars>>
  /\ ~flushing
  /\ tasks[i].kind = "onTrainingStart" /\ tasks[i].pc = "training"
  /\ \E throws \in BOOLEAN :
       IF throws
       THEN /\ isTraining' = FALSE
            /\ errors' = errors \cup {"training"}
            /\ tasks' = RemoveAt(tasks, i)
            /\ UNCHANGED <<messageQueue, wire, sendFailures, nextId, memChecks>>
       ELSE /\ \E o1 \in WsSendOutcomes(wsState, sendFailures) :
                 LET r1 == send(Message(WireType("updateTrainingProgress"), tasks[i].tid, 0),
                                o1, Channel)
                 IN  \E o2 \in WsSendOutcomes(wsState, r1.f) :
                       LET r2 == send(Message(WireType("sendWeights"), tasks[i].tid, 1),
                                      o2, r1)
                       IN  /\ messageQueue' = r2.q
                           /\ wire' = r2.w
                           /\ sendFailures' = r2.f
            /\ nextId' = nextId + 2
            /\ memChecks' = memChecks \cup {[tid |-> tasks[i].tid, point |-> "after_epoch"]}
            /\ IF tasks[i].epoch + 1 < tasks[i].epochs
               THEN /\ tasks' = [tasks EXCEPT ![i].epoch = @ + 1]
                    /\ UNCHANGED isTraining
               ELSE /\ tasks' = [tasks EXCEPT ![i].epoch = @ + 1, ![i].pc = "complete"]
                    /\ isTraining' = FALSE
            /\ UNCHANGED errors
  /\ UNCHANGED <<socks, isConnected, reconnectAttempts, timers, flushing,
                 connectPromise, connectCalls, appSends, lastDelay, lastK, exhausted,
                 inbound, currentRound, abandoned, completedRounds>>

\* onTrainingStart after trainModel returned: completeTraining, onRoundComplete
TrainingComplete(i) ==
  /\ UNCHANGED <<codecVars, managerVars, engineVars, handlerVars>>
  /\ ~flushing
  /\ tasks[i].kind = "onTrainingStart" /\ tasks[i].pc = "complete"
  /\ \E outcome \in WsSendOutcomes(wsState, sendFailures) :
       LET r == send(Message(WireType("completeTraining"), tasks[i].tid, 0), outcome, Channel)
       IN  /\ messageQueue' = r.q
           /\ wire' = r.w
           /\ sendFailures' = r.f
  /\ nextId' = nextId + 1
  /\ tasks' = RemoveAt(tasks, i)
  /\ completedRounds' = completedRounds \cup {tasks[i].tid}
  /\ UNCHANGED memChecks
  /\ UNCHANGED <<socks, isConnected, reconnectAttempts, timers, flushing,
                 connectPromise, connectCalls, appSends, lastDelay, lastK, exhausted,
                 errors, inbound, currentRound, isTraining, abandoned>>

\* onEvaluateRequest from ensureModelAndDataReady to the await inside evaluate()
EvaluateBegin(i) ==
  /\ UNCHANGED <<roundVars, codecVars, managerVars, engineVars, handlerVars>>
  /\ ~flushing
  /\ tasks[i].kind = "onEvaluateRequest" /\ tasks[i].pc = "init"
  /\ tasks' = [tasks EXCEPT ![i].pc = "evaluating"]
  /\ UNCHANGED <<transportVars, inbound, currentRound, isTraining, abandoned>>

\* onEvaluateRequest after evaluate() returned: completeEvaluation
EvaluateComplete(i) ==
  /\ UNCHANGED <<roundVars, codecVars, managerVars, engineVars, handlerVars>>
  /\ ~flushing
  /\ tasks[i].kind = "onEvaluateRequest" /\ tasks[i].pc = "evaluating"
  /\ \E outcome \in WsSendOutcomes(wsState, sendFailures) :
       LET r == send(Message(WireType("completeEvaluation"), tasks[i].tid, 0), outcome, Channel)
       IN  /\ messageQueue' = r.q
           /\ wire' = r.w
           /\ sendFailures' = r.f
  /\ nextId' = nextId + 1
  /\ tasks' = RemoveAt(tasks, i)
  /\ UNCHANGED <<socks, isConnected, reconnectAttempts, timers, flushing,
                 connectPromise, connectCalls, appSends, lastDelay, lastK, exhausted,
                 errors, inbound, currentRound, isTraining, abandoned>>

\* ------------------------------------------------------------ specifications
\* connection management alone: the application connects and disconnects
NextReconnect ==
  \/ FlowerClientConnect(MaxSockets)
  \/ PollConnection
  \/ \E s \in DOMAIN socks : OnOpen(s)
  \/ FlushStep
  \/ \E s \in DOMAIN socks : OnError(s)
  \/ \E s \in DOMAIN socks : OnClose(s)
  \/ TimerFire(MaxSockets)
  \/ Disconnect

SpecReconnect == Init /\ [][NextReconnect]_vars

\* the transport with the application connecting, sending and disconnecting
NextTransport ==
  \/ FlowerClientConnect(MaxSockets)
  \/ PollConnection
  \/ \E s \in DOMAIN socks : OnOpen(s)
  \/ FlushStep
  \/ \E s \in DOMAIN socks : OnError(s)
  \/ \E s \in DOMAIN socks : OnClose(s)
  \/ TimerFire(MaxSockets)
  \/ Disconnect
  \/ StartTraining

SpecTransport == Init /\ [][NextTransport]_vars

\* the session layer on top of the transport
Next ==
  \/ FlowerClientConnect(MaxSessionSockets)
  \/ PollConnection
  \/ \E s \in DOMAIN socks : OnOpen(s)
  \/ FlushStep
  \/ \E s \in DOMAIN socks : OnError(s)
  \/ \E s \in DOMAIN socks : OnClose(s)
  \/ TimerFire(MaxSessionSockets)
  \/ Disconnect
  \/ \E s \in DOMAIN socks : OnMessage(s)
  \/ \E i \in DOMAIN tasks : TrainingBegin(i)
  \/ \E i \in DOMAIN tasks : TrainingEpoch(i)
  \/ \E i \in DOMAIN tasks : TrainingComplete(i)
  \/ \E i \in DOMAIN tasks : EvaluateBegin(i)
  \/ \E i \in DOMAIN tasks : EvaluateComplete(i)

Spec == Init /\ [][Next]_vars

\* ------------------------------------------------------------ weight codec
\* ParameterSerialization (utils/parameterSerialization.js).  A JavaScript
\* value is a number or an array of values.
TensorRanks == 1..4

Num(n) == [t |-> "number", v |-> n, items |-> << >>]

Arr(items) == [t |-> "array", v |-> 0, items |-> items]

\* Array.isArray
IsArray(x) == x.t = "array"

\* shape.reduce((a, b) => a * b, 1)
RECURSIVE Product(_)
Product(shape) == IF shape = << >> THEN 1 ELSE Head(shape) * Product(Tail(shape))

RECURSIVE getArrayShape(_)
getArrayShape(arr) ==
  IF ~IsArray(arr)
  THEN << >>
  ELSE <<Len(arr.items)>> \o
       (IF Len(arr.items) > 0 /\ IsArray(arr.items[1])
        THEN getArrayShape(arr.items[1])
        ELSE << >>)

\* the closure flattenRecursive of flattenWeightArray: what it pushes to result
RECURSIVE flattenRecursive(_)
RECURSIVE flattenItems(_)
flattenRecursive(arr) == IF IsArray(arr) THEN flattenItems(arr.items) ELSE <<arr>>

\* for (const item of arr) flattenRecursive(item)
flattenItems(items) ==
  IF items = << >>
  THEN << >>
  ELSE flattenRecursive(Head(items)) \o flattenItems(Tail(items))

flattenWeightArray(weightArray) ==
  IF ~IsArray(weightArray) THEN weightArray ELSE flattenRecursive(weightArray)

\* weights.map((weightArray, index) => ({data, shape, dtype, layerIndex, size}))
serializeWeights(ws_) ==
  [index \in DOMAIN ws_ |->
     LET data == flattenWeightArray(ws_[index])
     IN  [data |-> data, shape |-> getArrayShape(ws_[index]), dtype |-> "float32",
          layerIndex |-> index - 1, size |-> Len(data)]]

\* parameters.map(param => param.data): the raw data array of every layer
deserializeParameters(ps) == [index \in DOMAIN ps |-> Arr(ps[index].data)]

\* the length validateParameters expects of param.data
ExpectedLengthFirstDimension(shape) == IF shape = << >> THEN 1 ELSE Head(shape)

ExpectedLength(shape) == Product(shape)

\* the for loop of validateParameters from index i on (every param here is an
\* object whose data and shape are arrays)
RECURSIVE validateFrom(_, _)
validateFrom(ps, i) ==
  IF i > Len(ps)
  THEN TRUE
  ELSE IF Len(ps[i].data) # ExpectedLength(ps[i].shape)
       THEN FALSE
       ELSE validateFrom(ps, i + 1)

validateParameters(ps) == validateFrom(ps, 1)

\* the rectangular nested array of a shape, its values numbered in row-major
\* order from first
RECURSIVE Tensor(_, _)
Tensor(shape, first) ==
  IF shape = << >>
  THEN Num(first)
  ELSE Arr([k \in 1..Head(shape) |->
              Tensor(Tail(shape), first + (k - 1) * Product(Tail(shape)))])

TensorShapes == UNION {[1..r -> 1..MaxDim] : r \in TensorRanks}

\* weight sets as getModelWeights() returns them: a kernel of rank 1 to 4
\* followed by rank-1 layers
WeightSets ==
  UNION {{<<Tensor(kernel, 100)>> \o [i \in 1..n |-> Tensor(<<bias[i]>>, 200 + 10 * i)] :
            kernel \in TensorShapes, bias \in [1..n -> 1..MaxDim]} :
         n \in 0..(MaxLayers - 1)}

\* a parameter list as it comes back from the network: layer i untouched, cut
\* short, extended, or with its shape changed
Received(ps, i, how) ==
  CASE how = "truncated" -> [ps EXCEPT ![i].data = SubSeq(@, 1, Len(@) - 1)]
    [] how = "extended" -> [ps EXCEPT ![i].data = Append(@, Num(0))]
    [] how = "widened" -> [ps EXCEPT ![i].shape = <<Head(@) + 1>> \o Tail(@)]
    [] how = "transposed" -> [ps EXCEPT ![i].shape = [k \in DOMAIN @ |-> @[Len(@) + 1 - k]]]

InitCodec ==
  /\ SessionInit /\ ManagerIdle /\ EngineIdle
  /\ codecPc = "input"
  /\ weights \in WeightSets
  /\ parameters = << >>
  /\ restored = << >>
  /\ valid = FALSE

Serialize ==
  /\ codecPc = "input"
  /\ parameters' = serializeWeights(weights)
  /\ codecPc' = "serialized"
  /\ UNCHANGED <<weights, restored, valid, sessionVars, managerVars, engineVars, handlerVars>>

Receive ==
  /\ codecPc = "serialized"
  /\ \E i \in DOMAIN parameters :
       \E how \in {"truncated", "extended", "widened", "transposed"} :
         parameters' = Received(parameters, i, how)
  /\ codecPc' = "received"
  /\ UNCHANGED <<weights, restored, valid, sessionVars, managerVars, engineVars, handlerVars>>

Deserialize ==
  /\ codecPc = "serialized"
  /\ restored' = deserializeParameters(parameters)
  /\ codecPc' = "deserialized"
  /\ UNCHANGED <<weights, parameters, valid, sessionVars, managerVars, engineVars, handlerVars>>

Validate ==
  /\ codecPc \in {"serialized", "received"}
  /\ valid' = validateParameters(parameters)
  /\ codecPc' = "validated"
  /\ UNCHANGED <<weights, parameters, restored, sessionVars, managerVars, engineVars, handlerVars>>

NextCodec == Serialize \/ Receive \/ Deserialize \/ Validate

SpecCodec == InitCodec /\ [][NextCodec]_vars

\* ------------------------------------------------------------ model manager
\* ModelManager (federated/ModelManager.js) and the cleanup calls that reach
\* the TensorFlow.js engine.  typeof NaN and typeof Infinity are 'number'.
NaN == [t |-> "NaN", v |-> 0, items |-> << >>]

Infinity == [t |-> "Infinity", v |-> 0, items |-> << >>]

NegativeInfinity == [t |-> "-Infinity", v |-> 0, items |-> << >>]

Text == [t |-> "string", v |-> 0, items |-> << >>]

\* typeof val === 'number'
IsNumber(val) == val.t \in {"number", "NaN", "Infinity", "-Infinity"}

\* isNaN(val), for a val of type number
isNaN(val) == val.t = "NaN"

\* Number.isFinite(val)
IsFinite(val) == val.t = "number"

\* model.getWeights()[i].shape
ExpectedShape(i) == model[i].shape

\* one turn of the for loop of validateWeights: does layer i pass
validateLayer(actualWeight, expectedShape) ==
  IF ~IsArray(actualWeight)
  THEN FALSE
  ELSE LET flatWeight == flattenRecursive(actualWeight)
       IN  IF Product(expectedShape) # Len(flatWeight)
           THEN FALSE
           ELSE IF Len(flatWeight) = 0
                THEN FALSE
                ELSE ~(\E k \in DOMAIN flatWeight :
                         ~IsNumber(flatWeight[k]) \/ isNaN(flatWeight[k]))

\* ModelManager.validateWeights
validateWeights(ws_) ==
  IF Len(ws_) # Len(model)
  THEN FALSE
  ELSE \A i \in DOMAIN ws_ : validateLayer(ws_[i], ExpectedShape(i))

\* setModelWeights: the flat array of one layer
FlatArray(weightData) ==
  IF Len(weightData.items) > 0 /\ IsArray(weightData.items[1])
  THEN flattenRecursive(weightData)
  ELSE weightData.items

\* setModelWeights: does it throw before model.setWeights.  tf.tensor(values,
\* shape) throws when the number of values is not the product of the shape;
\* writing to a disposed variable throws
setModelWeightsThrows(ws_) ==
  \/ Len(model) = 0
  \/ Len(ws_) = 0
  \/ Len(ws_) # Len(model)
  \/ \E i \in DOMAIN ws_ :
       \/ ~IsArray(ws_[i])
       \/ \E k \in DOMAIN FlatArray(ws_[i]) :
            ~(IsNumber(FlatArray(ws_[i])[k]) /\ ~isNaN(FlatArray(ws_[i])[k]))
       \/ Len(FlatArray(ws_[i])) # Product(ExpectedShape(i))
       \/ model[i].disposed

\* tf.tensor(flatArray, expectedShape) for every layer, then model.setWeights
setModelWeights(ws_) == [i \in DOMAIN model |-> [model[i] EXCEPT !.data = FlatArray(ws_[i])]]

\* tf.dispose() called without a tensor: there is nothing to dispose
dispose(m) == m

\* tf.disposeVariables(): every variable registered with the engine is
\* disposed; the weights of a LayersModel are such variables
disposeVariables(m) == [i \in DOMAIN m |-> [m[i] EXCEPT !.disposed = TRUE]]

\* the array x with the value numbered n replaced by bad
RECURSIVE Spoiled(_, _, _)
Spoiled(x, n, bad) ==
  IF IsArray(x)
  THEN Arr([k \in DOMAIN x.items |-> Spoiled(x.items[k], n, bad)])
  ELSE IF x.v = n THEN bad ELSE x

ManagerShapes == UNION {[1..r -> 1..MaxDim] : r \in 1..2}

\* a model as createMNISTModel builds it: a kernel, with or without a bias
Models ==
  {<<[shape |-> kernel, data |-> flattenRecursive(Tensor(kernel, 1)), disposed |-> FALSE]>> \o
     [i \in 1..n |-> [shape |-> <<bias>>, data |-> flattenRecursive(Tensor(<<bias>>, 1)),
                      disposed |-> FALSE]] :
     kernel \in ManagerShapes, bias \in 1..MaxDim, n \in 0..1}

\* candidate layers: rectangular arrays of any of the shapes, all values
\* finite numbers or one value that is not
CandidateLayers ==
  {Tensor(shape, 100) : shape \in ManagerShapes} \cup
  {Spoiled(Tensor(shape, 100), 100, bad) :
     shape \in ManagerShapes, bad \in {NaN, Infinity, NegativeInfinity, Text}}

InitManager ==
  /\ SessionInit /\ CodecIdle /\ EngineIdle
  /\ managerPc = "ready"
  /\ model \in Models
  /\ candidate \in UNION {[1..n -> CandidateLayers] : n \in 1..MaxLayers}
  /\ validation = "none"

\* await modelManager.validateWeights(weights)
ValidateWeights ==
  /\ managerPc = "ready"
  /\ validation' = IF validateWeights(candidate) THEN "accepted" ELSE "rejected"
  /\ managerPc' = "validated"
  /\ UNCHANGED <<model, candidate, sessionVars, codecVars, engineVars, handlerVars>>

\* await modelManager.setModelWeights(weights), by a caller that did not
\* validate or by one whose validation passed
SetModelWeights ==
  /\ \/ managerPc = "ready"
     \/ managerPc = "validated" /\ validation = "accepted"
  /\ IF setModelWeightsThrows(candidate)
     THEN /\ managerPc' = "threw"
          /\ UNCHANGED model
     ELSE /\ managerPc' = "applied"
          /\ model' = setModelWeights(candidate)
  /\ UNCHANGED <<candidate, validation, sessionVars, codecVars, engineVars, handlerVars>>

\* resourceMonitor.cleanup()
ResourceMonitorCleanup ==
  /\ managerPc # "idle"
  /\ model' = dispose(model)
  /\ UNCHANGED <<managerPc, candidate, validation, sessionVars, codecVars, engineVars, handlerVars>>

\* tensorFlowManager.cleanup(), called directly or through
\* modelManager.cleanup()
TensorFlowManagerCleanup ==
  /\ managerPc # "idle"
  /\ model' = disposeVariables(model)
  /\ UNCHANGED <<managerPc, candidate, validation, sessionVars, codecVars, engineVars, handlerVars>>

NextManager ==
  \/ ValidateWeights
  \/ SetModelWeights
  \/ ResourceMonitorCleanup
  \/ TensorFlowManagerCleanup

SpecManager == InitManager /\ [][NextManager]_vars

\* ------------------------------------------------------------ training engine
\* TrainingEngine.trainModel and trainEpoch (lines 552-835 of
\* federated/WebSocketClient.js), called with validationSplit 0 as FlowerClient
\* does.  Losses and accuracies are exact; a quotient a / b is kept as the
\* pair [num |-> a, den |-> b].
Quotient(a, b) == [num |-> a, den |-> b]

\* Math.ceil(numSamples / batchSize)
Ceil(n, d) == (n + d - 1) \div d

numBatches == Ceil(cfg.numSamples, cfg.batchSize)

\* const end = Math.min(start + batchSize, numSamples)
BatchEndUnclamped(start, batchSize, numSamples) == start + batchSize

BatchEnd(start, batchSize, numSamples) == Min(start + batchSize, numSamples)

\* batchResults.loss * (end - start)
Unweighted(value, size) == value

Weighted(value, size) == value * size

\* const progress = (epoch + 1) / epochs
EpochProgressBefore(epoch, epochs) == Quotient(epoch, epochs)

EpochProgress(epoch, epochs) == Quotient(epoch + 1, epochs)

\* what model.trainOnBatch and calculateAccuracy can report for a batch
BatchResults == {[loss |-> 0, accuracy |-> 1], [loss |-> 4, accuracy |-> 0]}

InitEngine ==
  /\ SessionInit /\ CodecIdle /\ ManagerIdle
  /\ enginePc = "idle"
  /\ cfg \in [epochs : 1..MaxEngineEpochs, batchSize : 1..MaxBatchSize,
              numSamples : 1..MaxSamples]
  /\ currentEpoch = 0
  /\ currentBatch = 0
  /\ totalLoss = 0
  /\ totalAccuracy = 0
  /\ processedSamples = 0
  /\ batchLog = << >>
  /\ history = << >>
  /\ lastEpoch = [loss |-> Quotient(0, 1), accuracy |-> Quotient(0, 1)]
  /\ hookCalls = << >>

\* trainModel up to the first await of the first trainEpoch call
TrainModel ==
  /\ enginePc = "idle"
  /\ isTraining' = TRUE
  /\ currentEpoch' = 0
  /\ currentBatch' = 0
  /\ totalLoss' = 0
  /\ totalAccuracy' = 0
  /\ processedSamples' = 0
  /\ batchLog' = << >>
  /\ enginePc' = "training"
  /\ UNCHANGED <<cfg, history, lastEpoch, hookCalls, clientVars, codecVars, managerVars, handlerVars>>

\* one turn of the for loop of trainEpoch: trainBatch resolves
TrainBatch ==
  /\ enginePc = "training"
  /\ currentBatch < numBatches
  /\ \E batchResults \in BatchResults :
       LET start == currentBatch * cfg.batchSize
           end == BatchEnd(start, cfg.batchSize, cfg.numSamples)
       IN  /\ totalLoss' = totalLoss + Weighted(batchResults.loss, end - start)
           /\ totalAccuracy' = totalAccuracy + Weighted(batchResults.accuracy, end - start)
           /\ processedSamples' = processedSamples + (end - start)
           /\ batchLog' = Append(batchLog, [start |-> start, end |-> end,
                                            loss |-> batchResults.loss,
                                            accuracy |-> batchResults.accuracy])
  /\ currentBatch' = currentBatch + 1
  /\ UNCHANGED <<enginePc, cfg, currentEpoch, history, lastEpoch, hookCalls, isTraining,
                 clientVars, codecVars, managerVars, handlerVars>>

\* trainBatch rejects: trainEpoch and trainModel rethrow
TrainBatchThrows ==
  /\ enginePc = "training"
  /\ currentBatch < numBatches
  /\ isTraining' = FALSE
  /\ enginePc' = "failed"
  /\ UNCHANGED <<cfg, currentEpoch, currentBatch, totalLoss, totalAccuracy,
                 processedSamples, batchLog, history, lastEpoch, hookCalls,
                 clientVars, codecVars, managerVars, handlerVars>>

\* the loop of trainEpoch is over: it returns { loss, accuracy }
TrainEpochReturn ==
  /\ enginePc = "training"
  /\ ~(currentBatch < numBatches)
  /\ lastEpoch' = [loss |-> Quotient(totalLoss, processedSamples),
                   accuracy |-> Quotient(totalAccuracy, processedSamples)]
  /\ enginePc' = "returned"
  /\ UNCHANGED <<cfg, currentEpoch, currentBatch, totalLoss, totalAccuracy,
                 processedSamples, batchLog, history, hookCalls, isTraining,
                 clientVars, codecVars, managerVars, handlerVars>>

\* trainModel after await trainEpoch: history, the onEpochEnd hook, then the
\* next epoch (trainEpoch is entered again) or the return
EpochEnd ==
  /\ enginePc = "returned"
  /\ history' = Append(history, lastEpoch)
  /\ hookCalls' = Append(hookCalls,
                         [epoch |-> currentEpoch, epochs |-> cfg.epochs,
                          progress |-> EpochProgress(currentEpoch, cfg.epochs),
                          finished |-> Len(history) + 1])
  /\ IF currentEpoch + 1 < cfg.epochs
     THEN /\ currentEpoch' = currentEpoch + 1
          /\ currentBatch' = 0
          /\ totalLoss' = 0
          /\ totalAccuracy' = 0
          /\ processedSamples' = 0
          /\ batchLog' = << >>
          /\ enginePc' = "training"
          /\ UNCHANGED isTraining
     ELSE /\ isTraining' = FALSE
          /\ enginePc' = "done"
          /\ UNCHANGED <<currentEpoch, currentBatch, totalLoss, totalAccuracy,
                         processedSamples, batchLog>>
  /\ UNCHANGED <<cfg, lastEpoch, clientVars, codecVars, managerVars, handlerVars>>

NextEngine ==
  \/ TrainModel
  \/ TrainBatch
  \/ TrainBatchThrows
  \/ TrainEpochReturn
  \/ EpochEnd

SpecEngine == InitEngine /\ [][NextEngine]_vars

\* ------------------------------------------------------------ flush
\* FlowerClient.connect() called again by the application after its first call
\* returned (after a disconnect(), say)
FlowerClientReconnect(limit) ==
  /\ UNCHANGED <<roundVars, codecVars, managerVars, engineVars, handlerVars>>
  /\ ~flushing
  /\ connectPromise \in {"true", "false"}
  /\ connectCalls >= MaxConnectCalls
  /\ connectCalls < MaxConnectCalls + MaxReconnectCalls
  /\ Len(socks) < limit
  /\ connectCalls' = connectCalls + 1
  /\ \E ctorThrows \in BOOLEAN :
       IF ctorThrows
       THEN /\ connectPromise' = "false"
            /\ errors' = errors \cup {"connect"}
            /\ UNCHANGED socks
       ELSE /\ connectPromise' = "pending"
            /\ socks' = Append(socks, "connecting")
            /\ UNCHANGED errors
  /\ UNCHANGED <<isConnected, messageQueue, reconnectAttempts, timers, flushing,
                 nextId, appSends, wire, sendFailures, lastDelay, lastK, exhausted,
                 tasks, inbound, currentRound, isTraining, abandoned>>

\* the transport with an application that connects, disconnects, connects
\* again and sends
NextFlush ==
  \/ FlowerClientConnect(MaxFlushSockets)
  \/ FlowerClientReconnect(MaxFlushSockets)
  \/ PollConnection
  \/ \E s \in DOMAIN socks : OnOpen(s)
  \/ FlushStep
  \/ \E s \in DOMAIN socks : OnError(s)
  \/ \E s \in DOMAIN socks : OnClose(s)
  \/ TimerFire(MaxFlushSockets)
  \/ Disconnect
  \/ StartTraining

\* the continuation of await this.send(...) in processMessageQueue is a
\* microtask: once the loop has started, its next turn always runs
SpecFlush == Init /\ [][NextFlush]_vars /\ WF_vars(FlushStep)

\* ------------------------------------------------------------ round handler
\* wsClient.onTrainingStart and wsClient.onEvaluateRequest (unnamed/part_014),
\* one invocation at a time, with TrainingEngine.trainModel as one call; the
\* bridge numbers the rounds 1, 2, ...
\* Learning rates are counted in thousandths (0.01 is 10).
Undefined == [t |-> "undefined", v |-> 0, items |-> << >>]

\* a string holding a decimal number, such as '0', '2' or '-1'
Digits(n) == [t |-> "digits", v |-> n, items |-> << >>]

\* whether a JavaScript value is truthy
Truthy(x) ==
  CASE x.t = "number" -> x.v # 0
    [] x.t \in {"undefined", "NaN"} -> FALSE
    [] OTHER -> TRUE

\* a || b
Or(a, b) == IF Truthy(a) THEN a ELSE b

\* parseInt(x, 10) and parseFloat(x) on the values above
parseInt(x) == IF x.t \in {"number", "digits"} THEN Num(x.v) ELSE NaN

\* a destructuring default: { name = d } = config
Default(x, d) == IF x.t = "undefined" THEN d ELSE x

\* config?.epochs || '1' and config?.learning_rate || '0.01'
ConfigDefaultEpochs == 1
ConfigDefaultRate == 10

\* trainModel: learningRate = 0.01
DefaultLearningRate == 10

\* ensureModelAndDataReady: learningRate: 0.01
EvaluationLearningRate == 10

\* let retries = 3
InitialRetries == 3

\* setTimeout(() => reject(new Error('Dataset reload timeout')), 30000)
ReloadTimeout == 30000

\* the fallback num_examples of onEvaluateRequest and evaluate
FallbackExamples == 100

\* the epochs and learning_rate values a start_training config carries
ConfigEpochs ==
  {Undefined, Text, Digits(0), Digits(-1)} \cup {Num(n) : n \in -1..MaxRoundEpochs}

ConfigRates == {Undefined, Num(10), Num(50)}

\* the number of turns of for (let epoch = 0; epoch < epochs; epoch++)
LoopTurns(epochs) == IF epochs.t = "number" /\ epochs.v > 0 THEN epochs.v ELSE 0

\* x.toFixed(4) throws a TypeError when x is undefined
toFixedTolerant(x) == FALSE

toFixedThrows(x) == x.t = "undefined"

\* prepareTrainingData: which tensors X_train_processed / y_train_processed are
prepareTrainingData(validationSplit) ==
  IF validationSplit <= 0 THEN "caller" ELSE "slice"

\* the catch of trainModel
trainModelCatchSwallows(m, x, run) ==
  [threw |-> FALSE, model |-> m, X |-> x, epochsRun |-> run,
   result |-> [loss |-> Undefined, accuracy |-> Undefined]]

trainModelCatch(m, x, run) ==
  [threw |-> TRUE, model |-> m, X |-> x, epochsRun |-> run,
   result |-> [loss |-> Undefined, accuracy |-> Undefined]]

\* TrainingEngine.trainModel(model, X_train, y_train, config) where trainEpoch
\* throws in epoch failAt (never, when failAt is the number of turns)
trainModel(m, x, config, failAt) ==
  LET learningRate == Default(config.learningRate, Num(DefaultLearningRate)).v
      m1 == IF m.created /\ m.learningRate # 0
            THEN [m EXCEPT !.learningRate = learningRate]
            ELSE m
      processed == prepareTrainingData(config.validationSplit)
      turns == LoopTurns(config.epochs)
      loss == [epoch \in 1..turns |-> Num(epoch)]
      finalLoss == IF turns = 0 THEN Undefined ELSE loss[turns]
  IN  IF x # "live" THEN trainModelCatch(m1, x, 0)
      ELSE IF failAt < turns THEN trainModelCatch(m1, x, failAt)
      ELSE IF toFixedThrows(finalLoss) THEN trainModelCatch(m1, x, turns)
      ELSE [threw |-> FALSE, model |-> m1,
            X |-> IF processed = "caller" THEN "disposed" ELSE x,
            epochsRun |-> turns,
            result |-> [loss |-> finalLoss, accuracy |-> finalLoss]]

\* whether the Promise.race of the reload rejected
ReloadFailedOnRejectOnly(outcome) == outcome = "rejected"

ReloadFailed(outcome) == outcome # "loaded"

\* FlowerClient.completeTraining(data): what the caller sees when
\* wsClient.completeTraining returned or threw
completeTraining(outcome) ==
  [threw |-> FALSE,
   onError |-> IF outcome = "throw" THEN 1 ELSE 0,
   sent |-> outcome = "sent"]

\* the record of an invocation of onTrainingStart
NewRound(round, epochs, learningRate) ==
  [round |-> round, epochs |-> epochs, learningRate |-> learningRate,
   found |-> "none", reloads |-> 0, raceTimeout |-> 0, reload |-> "none",
   trainCalls |-> 0, epochFailed |-> FALSE, trainThrew |-> FALSE, epochsRun |-> 0,
   usedRate |-> 0, after |-> "none", result |-> [loss |-> Undefined, accuracy |-> Undefined],
   retries |-> 0, completeCalls |-> 0, sendFailures |-> 0, sent |-> << >>,
   onError |-> 0, onRoundComplete |-> 0, done |-> FALSE]

\* the catch of onTrainingStart: the recovery block, then onError(err)
onTrainingStartCatch(r) == [r EXCEPT !.onError = @ + 1, !.done = TRUE]

otherVars == <<transportVars, tasks, inbound, abandoned, roundVars, isTraining,
               codecVars, managerVars, engineVars>>

\* onTrainingStart from its call to the await of the reload, or to the call of
\* trainModel, or to its catch
OnTrainingStart ==
  /\ handlerPc = "idle"
  /\ lastRound.round < MaxRounds
  /\ \E configEpochs \in ConfigEpochs, configRate \in ConfigRates, loadFails \in BOOLEAN :
       LET round == lastRound.round + 1
           epochs == parseInt(Or(configEpochs, Digits(ConfigDefaultEpochs)))
           learningRate == parseInt(Or(configRate, Digits(ConfigDefaultRate))).v
           loaded == IF X_train = "unset"
                     THEN IF loadFails THEN "null" ELSE "live"
                     ELSE X_train
           r == [NewRound(round, epochs, learningRate) EXCEPT !.found = loaded]
       IN  /\ currentRound' = round
           /\ clientModel' = IF clientModel.created THEN clientModel
                             ELSE [created |-> TRUE, learningRate |-> learningRate]
           /\ IF loaded = "null"
              THEN /\ X_train' = loaded
                   /\ lastRound' = onTrainingStartCatch(r)
                   /\ handlerPc' = "idle"
              ELSE IF loaded \in {"disposed", "disposed_loading"}
              THEN /\ X_train' = "disposed_loading"
                   /\ lastRound' = [r EXCEPT !.reloads = @ + 1, !.raceTimeout = ReloadTimeout]
                   /\ handlerPc' = "reloading"
              ELSE /\ X_train' = loaded
                   /\ lastRound' = r
                   /\ handlerPc' = "training"
  /\ UNCHANGED <<lastEvaluation, otherVars>>

\* the Promise.race of the reload settles: loadLocalData resolved or rejected,
\* or the timer fired first
ReloadSettles ==
  /\ handlerPc = "reloading"
  /\ \E outcome \in {"loaded", "rejected", "timeout"} :
       /\ X_train' = CASE outcome = "loaded" -> "live"
                       [] outcome = "rejected" -> "disposed"
                       [] outcome = "timeout" -> X_train
       /\ IF ReloadFailed(outcome)
          THEN /\ lastRound' = onTrainingStartCatch([lastRound EXCEPT !.reload = outcome])
               /\ handlerPc' = "idle"
          ELSE /\ lastRound' = [lastRound EXCEPT !.reload = outcome]
               /\ handlerPc' = "training"
  /\ UNCHANGED <<lastEvaluation, clientModel, currentRound, otherVars>>

\* a loadLocalData call that lost the race against the timer finishes
LateLoad ==
  /\ handlerPc # "reloading"
  /\ X_train = "disposed_loading"
  /\ \E resolved \in BOOLEAN : X_train' = IF resolved THEN "live" ELSE "disposed"
  /\ UNCHANGED <<handlerPc, lastRound, lastEvaluation, clientModel, currentRound, otherVars>>

\* onTrainingStart from the call of trainModel to the first completeTraining
\* call, or to its catch
TrainRound ==
  /\ handlerPc = "training"
  /\ \E failAt \in 0..LoopTurns(lastRound.epochs) :
       LET t == trainModel(clientModel, X_train,
                           [epochs |-> lastRound.epochs, learningRate |-> Undefined,
                            validationSplit |-> 0], failAt)
           r == [lastRound EXCEPT !.trainCalls = @ + 1,
                                !.epochFailed = failAt < LoopTurns(lastRound.epochs),
                                !.trainThrew = t.threw,
                                !.epochsRun = t.epochsRun,
                                !.usedRate = t.model.learningRate,
                                !.after = t.X,
                                !.result = t.result]
       IN  /\ clientModel' = t.model
           /\ X_train' = t.X
           /\ IF t.threw \/ toFixedThrows(t.result.loss)
              THEN /\ lastRound' = onTrainingStartCatch(r)
                   /\ handlerPc' = "idle"
              ELSE /\ lastRound' = [r EXCEPT !.retries = InitialRetries]
                   /\ handlerPc' = "sending"
  /\ UNCHANGED <<lastEvaluation, currentRound, otherVars>>

\* one turn of the retry loop of onTrainingStart, then onRoundComplete or the
\* catch or (after the pause of one second) the next turn
CompleteTraining ==
  /\ handlerPc = "sending"
  /\ \E outcome \in {"sent", "throw"} :
       LET c == completeTraining(outcome)
           r == [lastRound EXCEPT !.completeCalls = @ + 1,
                                !.sendFailures = @ + (IF outcome = "throw" THEN 1 ELSE 0),
                                !.sent = IF c.sent THEN Append(@, lastRound.result) ELSE @,
                                !.onError = @ + c.onError]
       IN  IF ~c.threw
           THEN /\ lastRound' = [r EXCEPT !.onRoundComplete = @ + 1, !.done = TRUE]
                /\ handlerPc' = "idle"
           ELSE IF r.retries - 1 = 0
           THEN /\ lastRound' = onTrainingStartCatch([r EXCEPT !.retries = @ - 1])
                /\ handlerPc' = "idle"
           ELSE /\ lastRound' = [r EXCEPT !.retries = @ - 1]
                /\ UNCHANGED handlerPc
  /\ UNCHANGED <<lastEvaluation, clientModel, X_train, currentRound, otherVars>>

\* onEvaluateRequest: ensureModelAndDataReady, evaluate, completeEvaluation
OnEvaluateRequest ==
  /\ handlerPc = "idle"
  /\ lastEvaluation.request < MaxEvaluations
  /\ \E prepared \in BOOLEAN, evaluated \in BOOLEAN :
       LET computed == [loss |-> 1, accuracy |-> 1, num_examples |-> 20, computed |-> TRUE]
           fallback == [loss |-> 0, accuracy |-> 0, num_examples |-> FallbackExamples,
                        computed |-> FALSE]
       IN  /\ clientModel' = IF clientModel.created THEN clientModel
                             ELSE [created |-> TRUE, learningRate |-> EvaluationLearningRate]
           /\ X_train' = IF X_train = "unset"
                         THEN IF prepared THEN "live" ELSE "null"
                         ELSE X_train
           /\ lastEvaluation' =
                [request |-> lastEvaluation.request + 1,
                 failed |-> ~(prepared /\ evaluated),
                 sent |-> IF prepared /\ evaluated THEN <<computed>> ELSE <<fallback>>,
                 onError |-> IF prepared THEN 0 ELSE 1]
  /\ UNCHANGED <<handlerPc, lastRound, currentRound, otherVars>>

NextRound ==
  \/ OnTrainingStart
  \/ ReloadSettles
  \/ LateLoad
  \/ TrainRound
  \/ CompleteTraining
  \/ OnEvaluateRequest

SpecRound == Init /\ [][NextRound]_vars

\* ------------------------------------------------------------ claims
\* C1: at most one local training run is in progress at any time; a second
\* start_training delivered before the first run finished starts no second
\* trainModel run
C1_AtMostOneTrainingRun ==
  Cardinality({i \in DOMAIN tasks : tasks[i].pc = "training"}) <= 1

\* C2: messages passed to send() while disconnected are transmitted in the
\* order of their send() calls
C2_OfflineFifo ==
  \A i, j \in DOMAIN wire :
    (i < j /\ wire[i].offline /\ wire[j].offline) => wire[i].id < wire[j].id

\* C3: a message that waited in the outbound queue is transmitted on a
\* connection only after the registration message of that connection
C3_QueueAfterRegistration ==
  \A i \in DOMAIN wire :
    wire[i].offline =>
      \E j \in 1..(i - 1) : wire[j].sock = wire[i].sock /\ wire[j].type = "join"

\* C4: the handler of an inbound message has returned before the handler of
\* the next inbound message starts
C4_OneHandlerAtATime == Len(tasks) <= 1

\* C5: no training_complete is transmitted for a round that was training when
\* disconnect() was called
C5_AbandonedRoundNotCompleted ==
  \A i \in DOMAIN wire :
    wire[i].type = "training_complete" => wire[i].task \notin abandoned

\* C6: the delay scheduled before reconnection attempt k (k = 0 for the first
\* attempt after a successful connection) is min(1000 * 2^k, 30000)
C6_DelayOfAttemptK ==
  lastK >= 0 => lastDelay = Min(BaseDelay * Pow2(lastK), CapDelay)

\* C7: the scheduled reconnection delay never exceeds the cap of 30000 ms
C7_DelayWithinCap == lastDelay <= CapDelay

C7_Witness == lastDelay = CapDelay /\ reconnectAttempts = maxReconnectAttempts

\* C8: when a connection opens the attempt counter is 0 right afterwards, and
\* the next connection loss is attempt 0 of the backoff sequence
C8_OpenResetsAttempts ==
  [][/\ (\E s \in DOMAIN socks : socks[s] = "connecting" /\ socks'[s] = "open")
          => reconnectAttempts' = 0
     /\ (isConnected /\ timers' = timers + 1) => lastK' = 0]_vars

C8_Witness ==
  /\ flushing
  /\ reconnectAttempts = 0
  /\ lastK >= 1
  /\ \E s \in DOMAIN socks : s >= 2 /\ socks[s] = "open"

\* C9: when reconnection is given up, a fatal connectivity error is delivered
\* to FlowerClient.onError
C9_ExhaustionReported ==
  [][(exhausted' /\ ~exhausted) => errors' # errors]_vars

\* C10: a connect() whose connection cannot be established (reconnection
\* given up, nothing left to happen) has settled
C10_ConnectSettles ==
  (/\ exhausted
   /\ timers = 0
   /\ \A s \in DOMAIN socks : socks[s] = "closed")
    => connectPromise # "pending"

\* C11: for weight sets of rectangular nested arrays of rank 1 to 4,
\* deserializeParameters(serializeWeights(W)) has as many layers as W and every
\* returned layer equals the layer of W: same nesting, same values in place
C11_RoundTrip ==
  codecPc = "deserialized" =>
    /\ Len(restored) = Len(weights)
    /\ \A i \in DOMAIN weights : restored[i] = weights[i]

\* C12: validateParameters returns false when some layer has data.length
\* different from the product of its shape and true when all layers agree; it
\* accepts every output of serializeWeights
C12_ValidateParameters ==
  codecPc = "validated" =>
    /\ valid <=> \A i \in DOMAIN parameters :
                   Len(parameters[i].data) = Product(parameters[i].shape)
    /\ parameters = serializeWeights(weights) => valid

C12_Witness ==
  /\ codecPc = "validated"
  /\ ~valid
  /\ \E i, j \in DOMAIN parameters :
       /\ Len(parameters[i].data) = Product(parameters[i].shape)
       /\ Len(parameters[i].shape) >= 2
       /\ Len(parameters[j].data) # Product(parameters[j].shape)

\* C13: weight validation rejects every candidate in which a layer holds a
\* value that is not a finite number (NaN, +Infinity, -Infinity), and no such
\* candidate is applied to the model
C13_NonFiniteRejected ==
  LET nonFinite == \E i \in DOMAIN candidate :
                     \E k \in DOMAIN flattenRecursive(candidate[i]) :
                       ~IsFinite(flattenRecursive(candidate[i])[k])
  IN  nonFinite => (validation # "accepted" /\ managerPc # "applied")

\* C14: a candidate layer is accepted only if its shape equals the expected
\* shape dimension for dimension; a layer with the expected element count but
\* another shape is rejected and is not applied by reshaping its data
C14_ExactShape ==
  LET sameShapes == /\ Len(candidate) = Len(model)
                    /\ \A i \in DOMAIN candidate :
                         getArrayShape(candidate[i]) = model[i].shape
      allFinite == \A i \in DOMAIN candidate :
                     \A k \in DOMAIN flattenRecursive(candidate[i]) :
                       IsFinite(flattenRecursive(candidate[i])[k])
  IN  (allFinite /\ (validation = "accepted" \/ managerPc = "applied")) => sameShapes

\* C19: while a model is held, every weight tensor of it is live after any
\* sequence of cleanup calls
C19_CleanupKeepsWeights ==
  \A i \in DOMAIN model : ~model[i].disposed

\* sum of value times size, and of the sizes, over a list of batches
RECURSIVE SumOver(_, _)
SumOver(log, field) ==
  IF log = << >>
  THEN 0
  ELSE (CASE field = "loss" -> Head(log).loss * (Head(log).end - Head(log).start)
          [] field = "accuracy" -> Head(log).accuracy * (Head(log).end - Head(log).start)
          [] field = "size" -> Head(log).end - Head(log).start)
       + SumOver(Tail(log), field)

\* C15: the loss and the accuracy trainEpoch returns are the averages of the
\* batch values weighted by batch size, sum(value_i * size_i) / sum(size_i);
\* batches of sizes 3 and 1 with losses 0 and 4 give the loss 1, not 2
C15_WeightedAverages ==
  enginePc = "returned" =>
    /\ lastEpoch.loss = Quotient(SumOver(batchLog, "loss"), SumOver(batchLog, "size"))
    /\ lastEpoch.accuracy = Quotient(SumOver(batchLog, "accuracy"), SumOver(batchLog, "size"))
    /\ ([i \in DOMAIN batchLog |-> <<batchLog[i].end - batchLog[i].start, batchLog[i].loss>>]
          = <<<<3, 0>>, <<1, 4>>>>)
         => lastEpoch.loss.num = 1 * lastEpoch.loss.den

C15_Witness ==
  /\ enginePc = "returned"
  /\ [i \in DOMAIN batchLog |-> <<batchLog[i].end - batchLog[i].start, batchLog[i].loss>>]
       = <<<<3, 0>>, <<1, 4>>>>
  /\ lastEpoch.loss = Quotient(4, 4)

\* C16: with config.epochs = E >= 1 the onEpochEnd hook is called exactly E
\* times, after each epoch has finished and before the next one starts, with
\* epoch = 0, ..., E-1 in order, epochs = E and progress = (epoch + 1) / E, so
\* the last call reports progress 1
C16_EpochEndHook ==
  /\ \A i \in DOMAIN hookCalls :
       /\ hookCalls[i].epoch = i - 1
       /\ hookCalls[i].epochs = cfg.epochs
       /\ hookCalls[i].progress = Quotient(i, cfg.epochs)
       /\ hookCalls[i].finished = i
  /\ enginePc \in {"training", "returned"} => Len(hookCalls) = currentEpoch
  /\ enginePc = "done" =>
       /\ Len(hookCalls) = cfg.epochs
       /\ hookCalls[Len(hookCalls)].progress.num = hookCalls[Len(hookCalls)].progress.den

C16_Witness ==
  /\ enginePc = "done"
  /\ cfg.epochs >= 2
  /\ Len(hookCalls) = cfg.epochs

\* C17: trainEpoch on N >= 1 samples with batch size B >= 1 trains exactly
\* ceil(N / B) batches in increasing order; they are contiguous, disjoint,
\* cover samples 0..N-1 once, and each has size B except possibly the last
C17_BatchPartition ==
  /\ \A i \in DOMAIN batchLog :
       /\ batchLog[i].start = (i - 1) * cfg.batchSize
       /\ batchLog[i].start < batchLog[i].end
       /\ i < Len(batchLog) => /\ batchLog[i].end - batchLog[i].start = cfg.batchSize
                               /\ batchLog[i + 1].start = batchLog[i].end
       /\ batchLog[i].end - batchLog[i].start <= cfg.batchSize
       /\ batchLog[i].end <= cfg.numSamples
  /\ enginePc = "returned" =>
       /\ Len(batchLog) * cfg.batchSize >= cfg.numSamples
       /\ (Len(batchLog) - 1) * cfg.batchSize < cfg.numSamples
       /\ batchLog[1].start = 0
       /\ batchLog[Len(batchLog)].end = cfg.numSamples

C17_Witness ==
  /\ enginePc = "returned"
  /\ Len(batchLog) >= 2
  /\ batchLog[Len(batchLog)].end - batchLog[Len(batchLog)].start < cfg.batchSize

\* C18: each completed round increments currentRound by exactly one; starting
\* from 0, after n completed rounds (no round running) currentRound is n
C18_RoundCounter ==
  (completedRounds # {} /\ tasks = << >>) => currentRound = Cardinality(completedRounds)

\* C20: for every completed round the memory check was made before its
\* training started, after each of its epochs, and after it completed
C20_MemoryChecks ==
  \A tid \in completedRounds :
    /\ \E c \in memChecks : c.point \in {"before_request", "before_training"}
    /\ [tid |-> tid, point |-> "after_epoch"] \in memChecks
    /\ [tid |-> tid, point |-> "after_round"] \in memChecks

C22_OneReloadThenFail ==
  /\ (lastRound.found \in {"disposed", "disposed_loading"})
       => (lastRound.reloads = 1 /\ lastRound.raceTimeout = 30000)
  /\ (lastRound.found \notin {"disposed", "disposed_loading"})
       => lastRound.reloads = 0
  /\ (lastRound.reload \in {"rejected", "timeout"})
       => /\ lastRound.trainCalls = 0
          /\ lastRound.completeCalls = 0
          /\ lastRound.sent = << >>
          /\ lastRound.onRoundComplete = 0
          /\ lastRound.onError = 1
          /\ lastRound.done

C22_Witness ==
  /\ lastRound.found = "disposed"
  /\ lastRound.reload = "timeout"
  /\ lastRound.reloads = 1
  /\ lastRound.onError = 1
  /\ handlerPc = "idle"

\* C23: when the evaluation failed, no evaluate_complete with metric values is
\* handed to the transport, and onError is called
C23_NoFabricatedEvaluation ==
  lastEvaluation.failed => (lastEvaluation.sent = << >> /\ lastEvaluation.onError >= 1)

\* C24: completeTraining is called again after a failed call, up to 3 calls in
\* a round; a round whose 3 calls all failed ends with onError and without
\* onRoundComplete
C24_ThreeAttempts ==
  (lastRound.done /\ lastRound.completeCalls >= 1) =>
    \/ /\ lastRound.sent # << >>
       /\ lastRound.completeCalls = lastRound.sendFailures + 1
       /\ lastRound.completeCalls <= 3
    \/ /\ lastRound.sent = << >>
       /\ lastRound.sendFailures = 3
       /\ lastRound.completeCalls = 3
       /\ lastRound.onRoundComplete = 0
       /\ lastRound.onError >= 1

\* C25: the optimizer's learning rate during the training of a round is the
\* learning_rate of the round's config (0.01 when it has none)
C25_LearningRateOfRound ==
  lastRound.trainCalls >= 1 => lastRound.usedRate = lastRound.learningRate

\* C29: when trainModel returns, the X_train and y_train it was called with are
\* not disposed
C29_CallerTensorsKept ==
  (lastRound.trainCalls >= 1 /\ ~lastRound.trainThrew) => lastRound.after = "live"

\* C30: a round whose epochs (parseInt(config?.epochs || '1', 10)) is 0,
\* negative or NaN ends with onError called, completeTraining not called, no
\* training_complete and no metrics handed to the transport or to
\* onRoundComplete
C30_NoEpochsFailsRound ==
  (lastRound.trainCalls >= 1 /\ (lastRound.epochs.t = "NaN" \/ lastRound.epochs.v <= 0)) =>
    /\ lastRound.epochsRun = 0
    /\ lastRound.completeCalls = 0
    /\ lastRound.sent = << >>
    /\ lastRound.onRoundComplete = 0
    /\ lastRound.onError = 1
    /\ lastRound.done

C30_Witness ==
  /\ lastRound.trainCalls = 1
  /\ lastRound.epochs = Num(0)
  /\ lastRound.onError = 1
  /\ handlerPc = "idle"

\* C26: the close of a socket that disconnect() closed schedules no
\* reconnection timer
C26_DisconnectStaysDisconnected ==
  [][(\E s \in DOMAIN socks : socks[s] = "closing" /\ socks'[s] = "closed")
       => timers' = timers]_vars

\* C27: messages are transmitted in the order of their send() calls, also when
\* some of them waited in the queue for the flush after a reconnection
C27_TransmissionOrder ==
  \A i, j \in DOMAIN wire : i < j => wire[i].id < wire[j].id

\* C28: a flush that has started comes to an end
C28_FlushTerminates == (flushing /\ Len(messageQueue) >= 2) ~> ~flushing

====
